---- MODULE Spec2Model ----
(***************************************************************************)
(* Research Lens (Weekly_Digest): the research workflow of                 *)
(* backend/agents/research_agent.py and the two search clients             *)
(* backend/services/arxiv.py and backend/services/tavily_search.py.        *)
(*                                                                         *)
(* Three specifications share the variables:                               *)
(*   Spec        one run of run_research_agent (the five-node graph);      *)
(*   SpecArxiv   one call of ArxivService.search_papers;                   *)
(*   SpecTavily  one call of TavilyService.search_articles.                *)
(*                                                                         *)
(* Time is counted in ticks of the clock's resolution; a day has           *)
(* TicksPerDay ticks.  A paper carries the fields the claims read (id,     *)
(* arxiv_url, published_date, summary); title, authors, abstract and       *)
(* categories travel with it the same way and are folded into the feed     *)
(* entry's well_formed flag.                                               *)
(***************************************************************************)
EXTENDS Integers, Sequences, FiniteSets, TLC

VARIABLES
    \* ---- environment of one run
    llm_ok,          \* get_llm() succeeds (ChatGoogleGenerativeAI can be built)
    tavily_client,   \* TavilyService.client is not None (TAVILY_API_KEY set)
    days,            \* timeframe_days of the request
    \* ---- the graph run (graph.ainvoke)
    phase,           \* "graph" | "raised" | "returned"
    superstep,       \* 1, 2, 3: the superstep being executed; 4: no task left
    task,            \* node name -> "idle" | "running" | "done" | "finished"
                     \*              | "raised" | "cancelled"
    state,           \* ResearchState
    writes,          \* key -> sequence of values written in this superstep
    graph_exc,       \* message of the exception graph.ainvoke raised, or None
    \* ---- summarize_papers' locals
    sp_i,            \* index of the next paper of the for loop
    summarized_papers,
    \* ---- run_research_agent's return value
    response,
    \* ---- observations
    raw_papers,      \* what arxiv_service.search_papers returned to fetch_papers
    raw_articles,    \* what tavily_service.search_articles returned
    sp_replies,      \* kinds of the model outcomes seen by summarize_papers
    article_reply,   \* kind of the model outcome of generate_article_summary
    llm_calls,       \* node name -> number of llm.ainvoke calls made
    caught,          \* nodes whose except clause turned a failure into a placeholder
    errors,          \* the messages the fetch nodes wrote to "error", in order
    paper_outcome,   \* what the paper provider call did ("none" before it)
    article_outcome, \* what the article provider call did ("none" before it)
    sp_trace,        \* summarize_papers' "call" and "sleep" events, in order
    node_runs,       \* node name -> how many times the graph started it
    \* ---- POST /api/research
    topic_len,       \* length of the request's topic
    http_status,     \* "pending" | "200" | "422" | "500"
    history,         \* the SearchHistory rows committed
    db_ok,           \* get_current_user and db.commit succeed
    \* ---- the search clients called on their own
    feed,            \* outcome of the GET and the entries of the Atom feed
    tv_response,     \* what AsyncTavilyClient.search does
    svc_pc,          \* "call" | "returned"
    svc_result,      \* [raised, value] of the service call
    utc_offset,      \* the host's local time minus UTC, in ticks
    \* ---- the session and history endpoints
    clock,           \* datetime.utcnow(), in ticks
    sessions,        \* the UserSession rows stored
    created_sessions, \* every UserSession row ever committed
    logged_out,      \* the tokens a logout was presented with
    uuids,           \* how many uuid4 values have been generated
    web,             \* the last request of these endpoints and its answer
    jar              \* the cookies of a browser, and the search it made

vars == << llm_ok, tavily_client, days, phase, superstep, task, state, writes,
           graph_exc, sp_i, summarized_papers, response, raw_papers,
           raw_articles, sp_replies, article_reply, llm_calls, caught,
           errors, paper_outcome, article_outcome, sp_trace, node_runs,
           topic_len, http_status, history, db_ok,
           feed, tv_response, svc_pc, svc_result, utc_offset,
           clock, sessions, created_sessions, logged_out, uuids, web, jar >>

run_vars == << phase, superstep, task, state, writes, graph_exc, sp_i,
               summarized_papers, response, raw_papers, raw_articles,
               sp_replies, article_reply, llm_calls, caught, errors,
               paper_outcome, article_outcome, sp_trace, node_runs >>

fetch_obs == << errors, paper_outcome, article_outcome >>

api_vars == << topic_len, http_status, history, db_ok >>

svc_vars == << feed, tv_response, svc_pc, svc_result >>

web_vars == << clock, sessions, created_sessions, logged_out, uuids, web,
              jar >>

\* What the session and history endpoints leave alone, the history rows
\* apart.
non_web == << llm_ok, tavily_client, days, run_vars, svc_vars, utc_offset,
             topic_len, http_status, db_ok >>

-----------------------------------------------------------------------------
(* Bounds *)

TicksPerDay == 2      \* ticks in one day
MaxDays == 2          \* timeframe_days ranges over 1..MaxDays (the code: 1..30)
MaxFeed == 11         \* longest feed of SpecArxiv
MaxResults == 16      \* longest provider response of SpecTavily
WfMaxFeed == 2        \* longest feed inside a workflow run
WfMaxArticles == 2    \* longest article response inside a workflow run

(* Program constants *)

MAX_PAPERS == 10      \* papers[:10]
MAX_ARTICLES == 15    \* max_results=15, the number asked of the provider

None == "<None>"
Absent == "<absent>"
NoDate == 0 - 1

NOT_SPECIFIED == "Not specified."
SUMMARY_UNAVAILABLE == "Summary unavailable."
EXEC_FAILED == "Executive summary generation failed."
NO_PAPERS == "No papers found for this topic and timeframe."
NO_ARTICLES == "No articles found for this topic and timeframe."
RESEARCH_FAILED == "Research failed."
MODEL_TEXT == "model text"
PAPER_NARRATIVE == "paper narrative"
ARTICLE_NARRATIVE == "article narrative"

Now == MaxDays * TicksPerDay + 2        \* datetime.now(), in ticks

Take(s, n) == SubSeq(s, 1, IF Len(s) < n THEN Len(s) ELSE n)

-----------------------------------------------------------------------------
(* backend/services/arxiv.py *)

ArxivPaper(entry) ==
    [ id |-> entry.id,
      arxiv_url |-> << "https://arxiv.org/abs/", entry.id >>,
      published_date |-> entry.published ]

parse_entry_mut_exclusive(entry, cutoff_date) ==
    IF entry.published = NoDate THEN "error"
    ELSE IF entry.published <= cutoff_date THEN "old"
    ELSE IF ~entry.well_formed THEN "error"
    ELSE "paper"

\* What the body of the for loop does with one entry: "paper", "old"
\* (continue at the date filter) or "error" (the except clause).
parse_entry(entry, cutoff_date) ==
    IF entry.published = NoDate THEN "error"
    ELSE IF entry.published < cutoff_date THEN "old"
    ELSE IF ~entry.well_formed THEN "error"
    ELSE "paper"

RECURSIVE parse_entries_mut_abort(_, _)
parse_entries_mut_abort(entries, cutoff_date) ==
    IF entries = << >> THEN << >>
    ELSE LET entry == Head(entries)
             kind == parse_entry(entry, cutoff_date)
         IN  IF kind = "error" THEN << >>
             ELSE IF kind = "paper"
             THEN << ArxivPaper(entry) >>
                      \o parse_entries_mut_abort(Tail(entries), cutoff_date)
             ELSE parse_entries_mut_abort(Tail(entries), cutoff_date)

\* The for loop over the entries: the papers appended, in feed order.
RECURSIVE parse_entries(_, _)
parse_entries(entries, cutoff_date) ==
    IF entries = << >> THEN << >>
    ELSE LET entry == Head(entries)
             rest == parse_entries(Tail(entries), cutoff_date)
         IN  IF parse_entry(entry, cutoff_date) = "paper"
             THEN << ArxivPaper(entry) >> \o rest
             ELSE rest

\* _parse_response: ET.fromstring raises on malformed XML.
parse_response(xml, cutoff_date) ==
    IF xml.outcome = "malformed_xml" THEN [raised |-> TRUE, value |-> << >>]
    ELSE [raised |-> FALSE, value |-> parse_entries(xml.entries, cutoff_date)]

cutoff_of(now, timeframe) == now - timeframe * TicksPerDay

\* datetime.now(): the host's local wall-clock time, without timezone.
datetime_now == Now + utc_offset

search_papers_mut_nolimit(xml, timeframe) ==
    LET cutoff_date == cutoff_of(datetime_now, timeframe)
    IN  IF xml.outcome \in {"network_error", "timeout", "http_status_error"}
        THEN [raised |-> FALSE, value |-> << >>]
        ELSE LET papers == parse_response(xml, cutoff_date)
             IN  IF papers.raised THEN [raised |-> FALSE, value |-> << >>]
                 ELSE [raised |-> FALSE, value |-> papers.value]

\* search_papers: the whole body is inside try / except Exception.
search_papers(xml, timeframe) ==
    LET cutoff_date == cutoff_of(datetime_now, timeframe)
    IN  IF xml.outcome \in {"network_error", "timeout", "http_status_error"}
        THEN [raised |-> FALSE, value |-> << >>]
        ELSE LET papers == parse_response(xml, cutoff_date)
             IN  IF papers.raised THEN [raised |-> FALSE, value |-> << >>]
                 ELSE [raised |-> FALSE, value |-> Take(papers.value, MAX_PAPERS)]

-----------------------------------------------------------------------------
(* backend/services/tavily_search.py *)

\* A provider result is [has_url, url, malformed].  url is the host of the
\* URL as a sequence of pieces of text, the dot being a piece of its own
\* ("www.example.com" is << "www", ".", "example", ".", "com" >>); it is << >>
\* when the URL has no scheme or host or the key is missing.  malformed: urlparse
\* raises on the URL.
UNKNOWN == << "Unknown" >>

\* str.replace("www.", ""): every occurrence is removed, left to right.
RECURSIVE strip_www(_)
strip_www(netloc) ==
    IF Len(netloc) <= 1 THEN netloc
    ELSE IF netloc[1] = "www" /\ netloc[2] = "."
         THEN strip_www(SubSeq(netloc, 3, Len(netloc)))
         ELSE << Head(netloc) >> \o strip_www(Tail(netloc))

\* source = "Unknown"; try: urlparse(result.get("url", "")).netloc
\* .replace("www.", ""); except: pass
source_of(result) ==
    IF result.malformed THEN UNKNOWN
    ELSE IF ~result.has_url THEN << >>
    ELSE strip_www(result.url)

transform_result(result, i) ==
    [ id |-> << "uuid4", i >>,
      url |-> IF ~result.has_url THEN << >> ELSE result.url,
      source |-> source_of(result) ]

transform_results(results) ==
    [ i \in 1..Len(results) |-> transform_result(results[i], i) ]

\* search_articles: the guard on self.client, then a try / except Exception
\* around the provider call and the transformation.
search_articles(client, resp) ==
    IF ~client THEN [raised |-> FALSE, value |-> << >>]
    ELSE IF resp.outcome = "raise" THEN [raised |-> FALSE, value |-> << >>]
    ELSE IF ~resp.has_results THEN [raised |-> FALSE, value |-> << >>]
    ELSE [raised |-> FALSE, value |-> transform_results(resp.results)]

-----------------------------------------------------------------------------
(* backend/agents/research_agent.py: the nodes *)

Keys == {"papers", "articles", "paper_executive_summary",
         "article_executive_summary", "error"}

Nodes == {"fetch_papers", "fetch_articles", "summarize_papers",
          "generate_paper_summary", "generate_article_summary"}

\* A node's return value: for each key of the state the values it writes
\* (none or one).
NoUpdate == [ k \in Keys |-> << >> ]

EmptySummary ==
    [ problem_statement |-> "", proposed_solution |-> "", challenges |-> "" ]

UnavailableSummary ==
    [ problem_statement |-> SUMMARY_UNAVAILABLE,
      proposed_solution |-> SUMMARY_UNAVAILABLE,
      challenges |-> SUMMARY_UNAVAILABLE ]

paper_dict(paper) ==
    [ id |-> paper.id, arxiv_url |-> paper.arxiv_url,
      published_date |-> paper.published_date, summary |-> EmptySummary ]

\* fetch_papers, given what arxiv_service.search_papers did.
fetch_papers(svc) ==
    IF svc.raised
    THEN [ update |-> [NoUpdate EXCEPT !.papers = << << >> >>,
                                       !.error = << "search_papers raised" >>],
           caught |-> TRUE ]
    ELSE [ update |-> [NoUpdate EXCEPT !.papers =
                 << [ i \in 1..Len(svc.value) |-> paper_dict(svc.value[i]) ] >>],
           caught |-> FALSE ]

\* fetch_articles, given what tavily_service.search_articles did.
fetch_articles(svc) ==
    IF svc.raised
    THEN [ update |-> [NoUpdate EXCEPT !.articles = << << >> >>,
                                       !.error = << "search_articles raised" >>],
           caught |-> TRUE ]
    ELSE [ update |-> [NoUpdate EXCEPT !.articles = << svc.value >>],
           caught |-> FALSE ]

\* parsed.get(key, "Not specified.")
dict_get(value, default) == IF value = Absent THEN default ELSE value

\* The body of summarize_papers' for loop for one model outcome: the
\* summary it stores and whether the except clause ran.
paper_summary(reply) ==
    IF reply.kind = "json"
    THEN [ problem_statement |-> dict_get(reply.problem_statement, NOT_SPECIFIED),
           proposed_solution |-> dict_get(reply.proposed_solution, NOT_SPECIFIED),
           challenges |-> dict_get(reply.challenges, NOT_SPECIFIED) ]
    ELSE UnavailableSummary

\* ainvoke raised, or json.loads raised on the matched text
in_except(reply) == reply.kind \in {"raise", "bad_json"}

summarize_one_mut_drop(summarized, paper, reply) ==
    IF in_except(reply)
    THEN [ raised |-> FALSE, slept |-> FALSE, papers |-> summarized ]
    ELSE [ raised |-> FALSE, slept |-> TRUE,
           papers |-> Append(summarized,
                             [paper EXCEPT !.summary = paper_summary(reply)]) ]

summarize_one_mut_reraise(summarized, paper, reply) ==
    [ raised |-> reply.kind = "raise",
      slept |-> ~in_except(reply),
      papers |-> Append(summarized,
                        [paper EXCEPT !.summary = paper_summary(reply)]) ]

\* One iteration of the for loop once the model call is over: every path
\* appends the paper, none raises, and asyncio.sleep(0.3) is the last
\* statement of the try block, so the except path does not reach it.
summarize_one(summarized, paper, reply) ==
    [ raised |-> FALSE,
      slept |-> ~in_except(reply),
      papers |-> Append(summarized,
                        [paper EXCEPT !.summary = paper_summary(reply)]) ]

call_ready_mut_eager(issued, replied) == issued <= replied + 1

\* `await llm.ainvoke(prompt)`: the loop issues a call only when every call
\* it issued before is over.
call_ready(issued, replied) == issued = replied

\* generate_paper_executive_summary / generate_article_executive_summary
\* after get_llm: the try / except around the single model call.
executive_summary(outcome, narrative) ==
    IF outcome = "raise" THEN EXEC_FAILED ELSE narrative

-----------------------------------------------------------------------------
(* run_research_agent: the response *)

paper_item(p) ==
    [ id |-> p.id, arxivUrl |-> p.arxiv_url, publishedDate |-> p.published_date,
      summary |-> [ problemStatement |-> p.summary.problem_statement,
                    proposedSolution |-> p.summary.proposed_solution,
                    challenges |-> p.summary.challenges ] ]

article_item(a) == [ id |-> a.id, url |-> a.url, source |-> a.source ]

article_items(articles) ==
    [ i \in 1..Len(articles) |-> article_item(articles[i]) ]

has_summary(p) == p.summary.problem_statement # SUMMARY_UNAVAILABLE

transform_mut_count(result, timeframe) ==
    [ timeframeDays |-> timeframe,
      papers |-> [ executiveSummary |-> result.paper_executive_summary,
                   count |-> Len(result.papers),
                   items |-> LET kept == SelectSeq(result.papers, has_summary)
                             IN  [ i \in 1..Len(kept) |-> paper_item(kept[i]) ] ],
      articles |-> [ executiveSummary |-> result.article_executive_summary,
                     count |-> Len(result.articles),
                     items |-> article_items(result.articles) ],
      warning |-> result.error ]

\* The try block after graph.ainvoke returned.
transform(result, timeframe) ==
    [ timeframeDays |-> timeframe,
      papers |-> [ executiveSummary |-> result.paper_executive_summary,
                   count |-> Len(result.papers),
                   items |-> [ i \in 1..Len(result.papers) |->
                                   paper_item(result.papers[i]) ] ],
      articles |-> [ executiveSummary |-> result.article_executive_summary,
                     count |-> Len(result.articles),
                     items |-> article_items(result.articles) ],
      warning |-> result.error ]

failed_mut_nowarning(message, timeframe) ==
    [ timeframeDays |-> timeframe,
      papers |-> [ executiveSummary |-> RESEARCH_FAILED, count |-> 0,
                   items |-> << >> ],
      articles |-> [ executiveSummary |-> RESEARCH_FAILED, count |-> 0,
                     items |-> << >> ],
      warning |-> None ]

\* The except block of run_research_agent.
failed(message, timeframe) ==
    [ timeframeDays |-> timeframe,
      papers |-> [ executiveSummary |-> RESEARCH_FAILED, count |-> 0,
                   items |-> << >> ],
      articles |-> [ executiveSummary |-> RESEARCH_FAILED, count |-> 0,
                     items |-> << >> ],
      warning |-> message ]

NoResponse ==
    [ timeframeDays |-> 0,
      papers |-> [ executiveSummary |-> "", count |-> 0, items |-> << >> ],
      articles |-> [ executiveSummary |-> "", count |-> 0, items |-> << >> ],
      warning |-> None ]

-----------------------------------------------------------------------------
(* Inputs *)

\* Feed entries: id is the position in the feed.
Entry(i, published, well_formed) ==
    [ id |-> i, published |-> published, well_formed |-> well_formed ]

Recent(i) == Entry(i, Now, TRUE)

\* The entry kinds around the cutoff of a window of d days.
EntryKinds(d) ==
    { [published |-> p, well_formed |-> w] :
        p \in {cutoff_of(Now, d) - 1, cutoff_of(Now, d), NoDate},
        w \in BOOLEAN }

WfEntryKinds ==
    { [published |-> Now, well_formed |-> TRUE],
      [published |-> 0, well_formed |-> TRUE],
      [published |-> Now, well_formed |-> FALSE],
      [published |-> NoDate, well_formed |-> TRUE] }

WfFeeds ==
    UNION { { [ i \in 1..n |-> Entry(i, f[i].published, f[i].well_formed) ] :
                f \in [1..n -> WfEntryKinds] } : n \in 0..WfMaxFeed }

HttpFailures == {"network_error", "timeout", "http_status_error", "malformed_xml"}

WfXmls ==
    { [outcome |-> "ok", entries |-> f] : f \in WfFeeds }
    \cup { [outcome |-> o, entries |-> << >>] : o \in HttpFailures }

Url(has_url, netloc, malformed) ==
    [ has_url |-> has_url, url |-> netloc, malformed |-> malformed ]

ExampleUrl == Url(TRUE, << "www", ".", "example", ".", "com" >>, FALSE)

\* www.example.com, example.com, news.www.org, awww.org, a URL without scheme
\* or host, a result without "url", and a URL urlparse rejects.
UrlKinds ==
    { ExampleUrl,
      Url(TRUE, << "example", ".", "com" >>, FALSE),
      Url(TRUE, << "news", ".", "www", ".", "org" >>, FALSE),
      Url(TRUE, << "a", "www", ".", "org" >>, FALSE),
      Url(TRUE, << >>, FALSE),
      Url(FALSE, << >>, FALSE),
      Url(TRUE, << "[" >>, TRUE) }

WfTavilyResponses ==
    { [outcome |-> "raise", has_results |-> FALSE, results |-> << >>],
      [outcome |-> "ok", has_results |-> FALSE, results |-> << >>] }
    \cup { [outcome |-> "ok", has_results |-> TRUE,
            results |-> [ i \in 1..n |-> ExampleUrl ]] : n \in 0..WfMaxArticles }

\* Model outcomes of one per-paper call: the call raises, the reply holds no
\* {...}, the matched text is no JSON, or it is a JSON object each of whose
\* fields is text, "", null or missing (at most one field is not plain text,
\* or all three are missing).
FieldValues == { MODEL_TEXT, "", None, Absent }

Reply(kind, ps, sol, ch) ==
    [ kind |-> kind, problem_statement |-> ps, proposed_solution |-> sol,
      challenges |-> ch ]

Replies ==
    { Reply(k, Absent, Absent, Absent) : k \in {"raise", "no_json", "bad_json", "json"} }
    \cup { Reply("json", v, MODEL_TEXT, MODEL_TEXT) : v \in FieldValues }
    \cup { Reply("json", MODEL_TEXT, v, MODEL_TEXT) : v \in FieldValues }
    \cup { Reply("json", MODEL_TEXT, MODEL_TEXT, v) : v \in FieldValues }

-----------------------------------------------------------------------------
(* The graph of build_research_graph, run by graph.ainvoke in supersteps:  *)
(* the tasks of a superstep run concurrently, their writes are applied     *)
(* together when all of them have finished, and the nodes their edges lead *)
(* to form the next superstep.  A key without a reducer takes one write    *)
(* per superstep.                                                          *)

Successors_mut_early(n) ==
    CASE n = "fetch_papers" -> {"summarize_papers", "generate_paper_summary"}
      [] n = "summarize_papers" -> {"generate_paper_summary"}
      [] n = "fetch_articles" -> {"generate_article_summary"}
      [] OTHER -> {}

Successors_mut_rerun(n) ==
    CASE n = "fetch_papers" -> {"summarize_papers"}
      [] n = "summarize_papers" -> {"generate_paper_summary", "fetch_articles"}
      [] n = "fetch_articles" -> {"generate_article_summary"}
      [] OTHER -> {}

Successors(n) ==
    CASE n = "fetch_papers" -> {"summarize_papers"}
      [] n = "summarize_papers" -> {"generate_paper_summary"}
      [] n = "fetch_articles" -> {"generate_article_summary"}
      [] OTHER -> {}

StartNodes == {"fetch_papers", "fetch_articles"}

initial_state ==
    [ papers |-> << >>, articles |-> << >>, paper_executive_summary |-> "",
      article_executive_summary |-> "", error |-> None ]

\* A node returns: its update joins the writes of the superstep.
add_writes(w, update) == [ k \in Keys |-> w[k] \o update[k] ]

conflict(w) == \E k \in Keys : Len(w[k]) > 1

apply_writes(st, w) ==
    [ papers |-> IF w.papers = << >> THEN st.papers ELSE w.papers[1],
      articles |-> IF w.articles = << >> THEN st.articles ELSE w.articles[1],
      paper_executive_summary |->
          IF w.paper_executive_summary = << >> THEN st.paper_executive_summary
          ELSE w.paper_executive_summary[1],
      article_executive_summary |->
          IF w.article_executive_summary = << >> THEN st.article_executive_summary
          ELSE w.article_executive_summary[1],
      error |-> IF w.error = << >> THEN st.error ELSE w.error[1] ]

NoCalls == [ n \in Nodes |-> 0 ]

RunState ==
    /\ superstep = 1
    /\ task = [ n \in Nodes |-> IF n \in StartNodes THEN "running" ELSE "idle" ]
    /\ state = initial_state
    /\ writes = NoUpdate
    /\ graph_exc = None
    /\ sp_i = 0
    /\ summarized_papers = << >>
    /\ response = NoResponse
    /\ raw_papers = << >>
    /\ raw_articles = << >>
    /\ sp_replies = << >>
    /\ article_reply = "none"
    /\ llm_calls = NoCalls
    /\ caught = {}
    /\ errors = << >>
    /\ paper_outcome = "none"
    /\ article_outcome = "none"
    /\ sp_trace = << >>
    /\ node_runs = [ n \in Nodes |-> IF n \in StartNodes THEN 1 ELSE 0 ]

RunInit ==
    /\ phase = "graph"
    /\ RunState

\* No request of the research endpoint is modelled.
ApiIdle ==
    /\ topic_len = 1
    /\ http_status = "pending"
    /\ history = << >>
    /\ db_ok = TRUE

\* A cookie that is not sent, and a column that is NULL.
NoCookie == 0

\* A SearchHistory row: the columns that decide who owns it.
SearchHistory(id, user_id, session_id) ==
    [ id |-> id, user_id |-> user_id, session_id |-> session_id ]

NoRow == SearchHistory(0, None, NoCookie)

\* A request and its answer: the cookies sent, whether the browser sent it,
\* the user get_current_user found, the status, the row read or deleted,
\* the ids listed, and the time of the request.
Answer(op, cookies, browser, user, status, row, items) ==
    [ op |-> op, session_token |-> cookies.session_token,
      session_id |-> cookies.session_id, browser |-> browser, user |-> user,
      status |-> status, row |-> row, items |-> items, at |-> clock ]

Cookies(session_token, session_id) ==
    [ session_token |-> session_token, session_id |-> session_id ]

NoRequest ==
    Answer("none", Cookies(NoCookie, NoCookie), FALSE, None, 0, NoRow, << >>)

\* A browser that has no cookie yet.  row: the id of the row its last search
\* stored; row_cookie: the session_id cookie it sent with that search.
EmptyJar == [ session_id |-> NoCookie, row |-> 0, row_cookie |-> NoCookie ]

\* No request of the session and history endpoints is modelled.
WebIdle ==
    /\ clock = 0
    /\ sessions = {}
    /\ created_sessions = {}
    /\ logged_out = {}
    /\ uuids = 0
    /\ web = NoRequest
    /\ jar = EmptyJar

SvcIdle ==
    /\ feed = [outcome |-> "ok", entries |-> << >>]
    /\ tv_response = [outcome |-> "ok", has_results |-> FALSE, results |-> << >>]
    /\ svc_pc = "idle"
    /\ svc_result = [raised |-> FALSE, value |-> << >>]

Init ==
    /\ llm_ok \in BOOLEAN
    /\ tavily_client \in BOOLEAN
    /\ days \in 1..MaxDays
    /\ RunInit
    /\ utc_offset = 0
    /\ WebIdle
    /\ ApiIdle
    /\ SvcIdle

Running(n) == phase = "graph" /\ task[n] = "running"

\* A node returned `update`.
NodeReturns(n, update) ==
    /\ writes' = add_writes(writes, update)
    /\ task' = [task EXCEPT ![n] = "done"]
    /\ UNCHANGED << phase, graph_exc >>

\* A node raised: graph.ainvoke raises and the other tasks are cancelled.
NodeRaises(n, message) ==
    /\ phase' = "raised"
    /\ graph_exc' = message
    /\ task' = [ m \in Nodes |-> IF m = n THEN "raised"
                                ELSE IF task[m] = "running" THEN "cancelled"
                                ELSE task[m] ]
    /\ UNCHANGED writes

\* What the article provider call did, as search_articles sees it.
tavily_outcome(client, resp) ==
    IF ~client THEN "no_key" ELSE resp.outcome

\* The services as fetch_papers and fetch_articles call them: the outcome of
\* the provider call and what the service does with it.
PaperCalls(timeframe) ==
    { [outcome |-> xml.outcome, svc |-> search_papers(xml, timeframe)] :
        xml \in WfXmls }

ArticleCalls(client) ==
    { [outcome |-> tavily_outcome(client, resp),
       svc |-> search_articles(client, resp)] : resp \in WfTavilyResponses }

FetchPapersFrom(calls) ==
    /\ Running("fetch_papers")
    /\ \E call \in calls :
         LET svc == call.svc
             r == fetch_papers(svc)
         IN  /\ NodeReturns("fetch_papers", r.update)
             /\ raw_papers' = svc.value
             /\ paper_outcome' = call.outcome
             /\ caught' = IF r.caught THEN caught \cup {"fetch_papers"} ELSE caught
             /\ errors' = errors \o r.update.error
    /\ UNCHANGED << node_runs, utc_offset, web_vars,
                    llm_ok, tavily_client, days, superstep, state, sp_i,
                    summarized_papers, response, raw_articles, sp_replies,
                    article_reply, llm_calls, svc_vars,
                    api_vars, sp_trace, article_outcome >>

FetchPapers == FetchPapersFrom(PaperCalls(days))

FetchArticlesFrom(calls) ==
    /\ Running("fetch_articles")
    /\ \E call \in calls :
         LET svc == call.svc
             r == fetch_articles(svc)
         IN  /\ NodeReturns("fetch_articles", r.update)
             /\ raw_articles' = svc.value
             /\ article_outcome' = call.outcome
             /\ caught' = IF r.caught THEN caught \cup {"fetch_articles"} ELSE caught
             /\ errors' = errors \o r.update.error
    /\ UNCHANGED << node_runs, utc_offset, web_vars,
                    llm_ok, tavily_client, days, superstep, state, sp_i,
                    summarized_papers, response, raw_papers, sp_replies,
                    article_reply, llm_calls, svc_vars,
                    api_vars, sp_trace, paper_outcome >>

FetchArticles == FetchArticlesFrom(ArticleCalls(tavily_client))

\* summarize_papers up to the for loop: the empty-list return and get_llm.
SummarizeStart ==
    /\ Running("summarize_papers")
    /\ sp_i = 0
    /\ IF state.papers = << >>
       THEN /\ NodeReturns("summarize_papers", [NoUpdate EXCEPT !.papers = << << >> >>])
            /\ UNCHANGED sp_i
       ELSE IF ~llm_ok
       THEN /\ NodeRaises("summarize_papers", "get_llm raised")
            /\ UNCHANGED sp_i
       ELSE /\ sp_i' = 1
            /\ UNCHANGED << phase, graph_exc, task, writes >>
    /\ UNCHANGED << node_runs, utc_offset, web_vars,
                    llm_ok, tavily_client, days, superstep, state,
                    summarized_papers, response, raw_papers, raw_articles,
                    sp_replies, article_reply, llm_calls, caught, svc_vars,
                    api_vars, fetch_obs, sp_trace >>

\* The for loop reaches llm.ainvoke(prompt) for the next paper.
SummarizeCall ==
    /\ Running("summarize_papers")
    /\ sp_i \in 1..Len(state.papers)
    /\ call_ready(llm_calls.summarize_papers, Len(sp_replies))
    /\ llm_calls' = [llm_calls EXCEPT !.summarize_papers = @ + 1]
    /\ sp_trace' = Append(sp_trace, "call")
    /\ UNCHANGED << node_runs, utc_offset, web_vars,
                    llm_ok, tavily_client, days, phase, superstep, task, state,
                    writes, graph_exc, sp_i, summarized_papers, response,
                    raw_papers, raw_articles, sp_replies, article_reply, caught,
                    svc_vars, api_vars, fetch_obs >>

\* The model call of paper sp_i is over: the rest of the iteration.
SummarizeOne ==
    /\ Running("summarize_papers")
    /\ sp_i \in 1..Len(state.papers)
    /\ llm_calls.summarize_papers > Len(sp_replies)
    /\ \E reply \in Replies :
         LET r == summarize_one(summarized_papers, state.papers[sp_i], reply)
         IN  /\ sp_replies' = Append(sp_replies, reply.kind)
             /\ sp_trace' = IF r.slept THEN Append(sp_trace, "sleep")
                                       ELSE sp_trace
             /\ IF r.raised
                THEN /\ NodeRaises("summarize_papers", "ainvoke raised")
                     /\ UNCHANGED << summarized_papers, sp_i, caught >>
                ELSE /\ summarized_papers' = r.papers
                     /\ sp_i' = sp_i + 1
                     /\ caught' = IF in_except(reply)
                                  THEN caught \cup {"summarize_papers"}
                                  ELSE caught
                     /\ UNCHANGED << phase, graph_exc, task, writes >>
    /\ UNCHANGED << node_runs, utc_offset, web_vars,
                    llm_ok, tavily_client, days, superstep, state, response,
                    raw_papers, raw_articles, article_reply, llm_calls,
                    svc_vars, api_vars, fetch_obs >>

\* return {"papers": summarized_papers}
SummarizeReturn ==
    /\ Running("summarize_papers")
    /\ sp_i = Len(state.papers) + 1
    /\ NodeReturns("summarize_papers",
                   [NoUpdate EXCEPT !.papers = << summarized_papers >>])
    /\ UNCHANGED << node_runs, utc_offset, web_vars,
                    llm_ok, tavily_client, days, superstep, state, sp_i,
                    summarized_papers, response, raw_papers, raw_articles,
                    sp_replies, article_reply, llm_calls, caught, svc_vars,
                    api_vars, fetch_obs, sp_trace >>

GeneratePaperSummary ==
    /\ Running("generate_paper_summary")
    /\ IF state.papers = << >>
       THEN /\ NodeReturns("generate_paper_summary",
                  [NoUpdate EXCEPT !.paper_executive_summary = << NO_PAPERS >>])
            /\ UNCHANGED << llm_calls, caught >>
       ELSE IF ~llm_ok
       THEN /\ NodeRaises("generate_paper_summary", "get_llm raised")
            /\ UNCHANGED << llm_calls, caught >>
       ELSE \E outcome \in {"text", "raise"} :
            /\ NodeReturns("generate_paper_summary",
                  [NoUpdate EXCEPT !.paper_executive_summary =
                       << executive_summary(outcome, PAPER_NARRATIVE) >>])
            /\ llm_calls' = [llm_calls EXCEPT !.generate_paper_summary = @ + 1]
            /\ caught' = IF outcome = "raise"
                         THEN caught \cup {"generate_paper_summary"} ELSE caught
    /\ UNCHANGED << node_runs, utc_offset, web_vars,
                    llm_ok, tavily_client, days, superstep, state, sp_i,
                    summarized_papers, response, raw_papers, raw_articles,
                    sp_replies, article_reply, svc_vars,
                    api_vars, fetch_obs, sp_trace >>

GenerateArticleSummary ==
    /\ Running("generate_article_summary")
    /\ IF state.articles = << >>
       THEN /\ NodeReturns("generate_article_summary",
                  [NoUpdate EXCEPT !.article_executive_summary = << NO_ARTICLES >>])
            /\ UNCHANGED << llm_calls, caught, article_reply >>
       ELSE IF ~llm_ok
       THEN /\ NodeRaises("generate_article_summary", "get_llm raised")
            /\ UNCHANGED << llm_calls, caught, article_reply >>
       ELSE \E outcome \in {"text", "raise"} :
            /\ NodeReturns("generate_article_summary",
                  [NoUpdate EXCEPT !.article_executive_summary =
                       << executive_summary(outcome, ARTICLE_NARRATIVE) >>])
            /\ llm_calls' = [llm_calls EXCEPT !.generate_article_summary = @ + 1]
            /\ article_reply' = outcome
            /\ caught' = IF outcome = "raise"
                         THEN caught \cup {"generate_article_summary"} ELSE caught
    /\ UNCHANGED << node_runs, utc_offset, web_vars,
                    llm_ok, tavily_client, days, superstep, state, sp_i,
                    summarized_papers, response, raw_papers, raw_articles,
                    sp_replies, svc_vars,
                    api_vars, fetch_obs, sp_trace >>

superstep_over_mut_nobarrier(t) == \E n \in Nodes : t[n] = "done"

\* A superstep is over when every task of it has returned.
superstep_over(t) ==
    /\ \E n \in Nodes : t[n] = "done"
    /\ \A n \in Nodes : t[n] # "running"

\* The end of a superstep: the writes are applied and the next tasks start.
EndSuperstep ==
    /\ phase = "graph"
    /\ superstep_over(task)
    /\ IF conflict(writes)
       THEN /\ phase' = "raised"
            /\ graph_exc' = "InvalidUpdateError"
            /\ UNCHANGED << state, task, superstep, writes, node_runs >>
       ELSE /\ state' = apply_writes(state, writes)
            /\ writes' = NoUpdate
            /\ task' = [ n \in Nodes |->
                  IF task[n] = "done" THEN "finished"
                  ELSE IF \E m \in Nodes : task[m] = "done" /\ n \in Successors(m)
                       THEN "running"
                       ELSE task[n] ]
            /\ node_runs' = [ n \in Nodes |->
                  IF /\ task[n] # "done"
                     /\ \E m \in Nodes : task[m] = "done" /\ n \in Successors(m)
                  THEN node_runs[n] + 1
                  ELSE node_runs[n] ]
            /\ superstep' = superstep + 1
            /\ UNCHANGED << phase, graph_exc >>
    /\ UNCHANGED << utc_offset, web_vars,
                    llm_ok, tavily_client, days, sp_i, summarized_papers,
                    response, raw_papers, raw_articles, sp_replies,
                    article_reply, llm_calls, caught, svc_vars,
                    api_vars, fetch_obs, sp_trace >>

\* graph.ainvoke returned: the response is built and returned.
Return ==
    /\ phase = "graph"
    /\ \A n \in Nodes : task[n] = "finished"
    /\ response' = transform(state, days)
    /\ phase' = "returned"
    /\ UNCHANGED << node_runs, utc_offset, web_vars,
                    llm_ok, tavily_client, days, superstep, task, state, writes,
                    graph_exc, sp_i, summarized_papers, raw_papers, raw_articles,
                    sp_replies, article_reply, llm_calls, caught, svc_vars,
                    api_vars, fetch_obs, sp_trace >>

\* except Exception as e
CatchAll ==
    /\ phase = "raised"
    /\ response' = failed(graph_exc, days)
    /\ phase' = "returned"
    /\ UNCHANGED << node_runs, utc_offset, web_vars,
                    llm_ok, tavily_client, days, superstep, task, state, writes,
                    graph_exc, sp_i, summarized_papers, raw_papers, raw_articles,
                    sp_replies, article_reply, llm_calls, caught, svc_vars,
                    api_vars, fetch_obs, sp_trace >>

Next ==
    \/ FetchPapers
    \/ FetchArticles
    \/ SummarizeStart
    \/ SummarizeCall
    \/ SummarizeOne
    \/ SummarizeReturn
    \/ GeneratePaperSummary
    \/ GenerateArticleSummary
    \/ EndSuperstep
    \/ Return
    \/ CatchAll

Spec == Init /\ [][Next]_vars

\* Every provider call and every model call returns or fails at some time,
\* and the graph runtime and run_research_agent go on when they can.
Fairness ==
    /\ WF_vars(FetchPapers)
    /\ WF_vars(FetchArticles)
    /\ WF_vars(SummarizeStart)
    /\ WF_vars(SummarizeCall)
    /\ WF_vars(SummarizeOne)
    /\ WF_vars(SummarizeReturn)
    /\ WF_vars(GeneratePaperSummary)
    /\ WF_vars(GenerateArticleSummary)
    /\ WF_vars(EndSuperstep)
    /\ WF_vars(Return)
    /\ WF_vars(CatchAll)

SpecLive == Spec /\ Fairness

-----------------------------------------------------------------------------
(* The workflow with services that may raise into the fetch nodes: the     *)
(* except clauses of fetch_papers and fetch_articles handle whatever the   *)
(* awaited service call raises.                                            *)

ServiceRaised == [ outcome |-> "raised",
                   svc |-> [ raised |-> TRUE, value |-> << >> ] ]

FetchPapersStub == FetchPapersFrom(PaperCalls(days) \cup {ServiceRaised})

FetchArticlesStub ==
    FetchArticlesFrom(ArticleCalls(tavily_client) \cup {ServiceRaised})

NextStub ==
    \/ FetchPapersStub
    \/ FetchArticlesStub
    \/ SummarizeStart
    \/ SummarizeCall
    \/ SummarizeOne
    \/ SummarizeReturn
    \/ GeneratePaperSummary
    \/ GenerateArticleSummary
    \/ EndSuperstep
    \/ Return
    \/ CatchAll

SpecStub == Init /\ [][NextStub]_vars

-----------------------------------------------------------------------------
(* backend/routes.py: POST /api/research *)

MIN_TOPIC_LENGTH == 1
MIN_TIMEFRAME == 1
MAX_TIMEFRAME == 30

\* SearchRequest: topic has min_length=1, timeframe_days has ge=1 and le=30.
valid_request(topic_length, timeframe) ==
    /\ topic_length >= MIN_TOPIC_LENGTH
    /\ timeframe >= MIN_TIMEFRAME
    /\ timeframe <= MAX_TIMEFRAME

\* PaperSummary: the three fields are declared str, which null is not.
valid_summary(summary) ==
    /\ summary.problemStatement # None
    /\ summary.proposedSolution # None
    /\ summary.challenges # None

\* response_model=DigestResponse: the returned digest is validated.
valid_response(digest) ==
    \A i \in 1..Len(digest.papers.items) :
        valid_summary(digest.papers.items[i].summary)

\* The SearchHistory row of a digest (the columns the digest decides).
history_entry(digest) ==
    [ paper_count |-> digest.papers.count,
      article_count |-> digest.articles.count ]

\* Timeframes on both sides of the two limits.
ApiTimeframes ==
    { MIN_TIMEFRAME - 1, MIN_TIMEFRAME, MAX_TIMEFRAME, MAX_TIMEFRAME + 1 }

InitApi ==
    /\ llm_ok \in BOOLEAN
    /\ tavily_client \in BOOLEAN
    /\ days \in ApiTimeframes
    /\ phase = "request"
    /\ RunState
    /\ utc_offset = 0
    /\ WebIdle
    /\ topic_len \in { MIN_TOPIC_LENGTH - 1, MIN_TOPIC_LENGTH }
    /\ http_status = "pending"
    /\ history = << >>
    /\ db_ok \in BOOLEAN
    /\ SvcIdle

\* The request body is validated before the handler is called.
ValidateRequest ==
    /\ phase = "request"
    /\ IF valid_request(topic_len, days)
       THEN /\ phase' = "graph"
            /\ UNCHANGED http_status
       ELSE /\ phase' = "responded"
            /\ http_status' = "422"
    /\ UNCHANGED << node_runs, utc_offset, web_vars,
                    llm_ok, tavily_client, days, superstep, task, state,
                    writes, graph_exc, sp_i, summarized_papers, response,
                    raw_papers, raw_articles, sp_replies, article_reply,
                    llm_calls, caught, fetch_obs, sp_trace, topic_len, history,
                    db_ok, svc_vars >>

\* run_research_agent returned: get_current_user, db.add and db.commit, and
\* the handler's except clause when one of them raises.
SaveHistory ==
    /\ phase = "returned"
    /\ IF db_ok
       THEN /\ history' = Append(history, history_entry(response))
            /\ phase' = "saved"
            /\ UNCHANGED http_status
       ELSE /\ http_status' = "500"
            /\ phase' = "responded"
            /\ UNCHANGED history
    /\ UNCHANGED << node_runs, utc_offset, web_vars,
                    llm_ok, tavily_client, days, superstep, task, state,
                    writes, graph_exc, sp_i, summarized_papers, response,
                    raw_papers, raw_articles, sp_replies, article_reply,
                    llm_calls, caught, fetch_obs, sp_trace, topic_len, db_ok,
                    svc_vars >>

\* return result: the digest goes through the response model.
Respond ==
    /\ phase = "saved"
    /\ http_status' = IF valid_response(response) THEN "200" ELSE "500"
    /\ phase' = "responded"
    /\ UNCHANGED << node_runs, utc_offset, web_vars,
                    llm_ok, tavily_client, days, superstep, task, state,
                    writes, graph_exc, sp_i, summarized_papers, response,
                    raw_papers, raw_articles, sp_replies, article_reply,
                    llm_calls, caught, fetch_obs, sp_trace, topic_len, history,
                    db_ok, svc_vars >>

NextApi ==
    \/ ValidateRequest
    \/ FetchPapers
    \/ FetchArticles
    \/ SummarizeStart
    \/ SummarizeCall
    \/ SummarizeOne
    \/ SummarizeReturn
    \/ GeneratePaperSummary
    \/ GenerateArticleSummary
    \/ EndSuperstep
    \/ Return
    \/ CatchAll
    \/ SaveHistory
    \/ Respond

SpecApi == InitApi /\ [][NextApi]_vars

-----------------------------------------------------------------------------
(* backend/auth.py, backend/main.py and the history endpoints of           *)
(* backend/routes.py.  Tokens and uuid4 values are numbered in the order   *)
(* they are generated: a generated value is never generated again.  A      *)
(* uuid4 that nobody keeps (the session_id cookie set for a requester that *)
(* is not the browser) is not numbered.                                    *)

MaxSessions == 2
MaxRows == 2
MaxUuids == 4
MaxClock == 2
SessionExpiryDays == 1

USER_HISTORY_LIMIT == 50
ANON_HISTORY_LIMIT == 20

\* The registered users.
Users == {"u1", "u2"}

UserSession(token, user_id, expires_at) ==
    [ token |-> token, user_id |-> user_id, expires_at |-> expires_at ]

expiry_of(now) == now + SessionExpiryDays * TicksPerDay

get_current_user_mut_expired(session_token) ==
    IF session_token = NoCookie THEN None
    ELSE LET found == { x \in sessions : x.token = session_token }
         IN  IF found = {} THEN None
             ELSE (CHOOSE x \in found : TRUE).user_id

\* get_current_user: the user of the stored session that has the token of
\* the cookie and has not expired, or None.
get_current_user(session_token) ==
    IF session_token = NoCookie THEN None
    ELSE LET found == { x \in sessions :
                          x.token = session_token /\ x.expires_at > clock }
         IN  IF found = {} THEN None
             ELSE (CHOOSE x \in found : TRUE).user_id

\* session_middleware: the session_id cookie set on the response, if any.
session_middleware(cookies, uuid) ==
    IF cookies.session_id = NoCookie THEN uuid ELSE NoCookie

\* How many uuid4 values session_middleware generates for a request.
middleware_uuids(cookies) == IF cookies.session_id = NoCookie THEN 1 ELSE 0

\* The session ids in use: those of the rows and the browser's.
SessionIds ==
    { history[k].session_id : k \in 1..Len(history) } \cup {jar.session_id}

\* The cookies a requester can send: no cookie, a token that was issued, a
\* session id in use.
Requests ==
    { Cookies(t, i) : t \in 0..Cardinality(created_sessions),
                      i \in SessionIds \cup {NoCookie} }

RECURSIVE Reverse(_)
Reverse(seq) ==
    IF seq = << >> THEN << >> ELSE Append(Reverse(Tail(seq)), Head(seq))

RECURSIVE Select(_, _, _)
\* The rows of `rows` whose column `col` is `v`, in order.
Select(rows, col, v) ==
    IF rows = << >> THEN << >>
    ELSE IF Head(rows)[col] = v
         THEN << Head(rows) >> \o Select(Tail(rows), col, v)
         ELSE Select(Tail(rows), col, v)

Ids(rows) == [ k \in 1..Len(rows) |-> rows[k].id ]

find_row(id) ==
    LET found == { k \in 1..Len(history) : history[k].id = id }
    IN  IF found = {} THEN NoRow ELSE history[CHOOSE k \in found : TRUE]

Without(rows, id) == SelectSeq(rows, LAMBDA r : r.id # id)

\* "Verify ownership" of get_history_item and delete_history_item.
access_denied(user, session_id, row) ==
    IF user # None THEN row.user_id # user
    ELSE row.session_id # session_id

\* The rows get_history lists, newest first.
listed(user, session_id) ==
    IF user # None
    THEN Take(Reverse(Select(history, "user_id", user)), USER_HISTORY_LIMIT)
    ELSE IF session_id = NoCookie THEN << >>
    ELSE Take(Reverse(Select(history, "session_id", session_id)),
              ANON_HISTORY_LIMIT)

InitWeb ==
    /\ llm_ok = TRUE
    /\ tavily_client = TRUE
    /\ days = 1
    /\ RunInit
    /\ utc_offset = 0
    /\ WebIdle
    /\ ApiIdle
    /\ SvcIdle

\* The browser keeps the session_id cookie a response sets.
jar_after(browser, set_session_id) ==
    IF browser /\ set_session_id # NoCookie
    THEN [jar EXCEPT !.session_id = set_session_id]
    ELSE jar

\* The uuid4 of session_middleware counts when the browser keeps it.
kept_uuids(browser, cookies) ==
    IF browser THEN middleware_uuids(cookies) ELSE 0

\* POST /api/auth/login for user u: 401 on a wrong password, else a new
\* session with a new token, which the response sets as a cookie.
Login ==
    \E u \in Users, password_ok \in BOOLEAN, cookies \in Requests :
        LET token == Cardinality(created_sessions) + 1
            session == UserSession(token, u, expiry_of(clock))
        IN  /\ token <= MaxSessions
            /\ IF password_ok
               THEN /\ sessions' = sessions \cup {session}
                    /\ created_sessions' = created_sessions \cup {session}
                    /\ web' = Answer("login", cookies, FALSE, u, 200, NoRow,
                                     << >>)
               ELSE /\ UNCHANGED << sessions, created_sessions >>
                    /\ web' = Answer("login", cookies, FALSE, None, 401, NoRow,
                                     << >>)
            /\ UNCHANGED << non_web, history, clock, logged_out, uuids, jar >>

\* POST /api/auth/logout: the sessions with the token of the cookie are
\* deleted.
Logout ==
    \E cookies \in Requests :
        /\ IF cookies.session_token # NoCookie
           THEN /\ sessions' = { x \in sessions :
                                   x.token # cookies.session_token }
                /\ logged_out' = logged_out \cup {cookies.session_token}
           ELSE UNCHANGED << sessions, logged_out >>
        /\ web' = Answer("logout", cookies, FALSE, None, 200, NoRow, << >>)
        /\ UNCHANGED << non_web, history, clock, created_sessions, uuids, jar >>

\* GET /api/auth/me
GetMe ==
    \E cookies \in Requests :
        /\ web' = Answer("get_me", cookies, FALSE,
                         get_current_user(cookies.session_token), 200, NoRow,
                         << >>)
        /\ UNCHANGED << non_web, history, clock, sessions, created_sessions,
                        logged_out, uuids, jar >>

\* Time passes.
Tick ==
    /\ clock < MaxClock
    /\ clock' = clock + 1
    /\ UNCHANGED << non_web, history, sessions, created_sessions, logged_out,
                    uuids, web, jar >>

NextAuth ==
    \/ Login
    \/ Logout
    \/ GetMe
    \/ Tick

SpecAuth == InitWeb /\ [][NextAuth]_vars

\* POST /api/research, the workflow apart (run_research_agent returns a
\* digest in every case): the row saved for the requester.
ResearchBy(cookies, browser) ==
    LET user == get_current_user(cookies.session_token)
        new_session == user = None /\ cookies.session_id = NoCookie
        session_id == IF user # None THEN NoCookie
                      ELSE IF new_session THEN uuids + 1
                      ELSE cookies.session_id
        id == IF new_session THEN uuids + 2 ELSE uuids + 1
        row == SearchHistory(id, user, session_id)
        set_session_id == session_middleware(cookies, id + 1)
    IN  /\ Len(history) < MaxRows
        /\ id + kept_uuids(browser, cookies) <= MaxUuids
        /\ history' = Append(history, row)
        /\ uuids' = id + kept_uuids(browser, cookies)
        /\ web' = Answer("research", cookies, browser, user, 200, row, << >>)
        /\ jar' = IF browser
                  THEN [ session_id |-> jar_after(browser, set_session_id).session_id,
                         row |-> id, row_cookie |-> cookies.session_id ]
                  ELSE jar
        /\ UNCHANGED << non_web, clock, sessions, created_sessions, logged_out >>

Research == \E cookies \in Requests : ResearchBy(cookies, FALSE)

BrowserResearch == ResearchBy(Cookies(NoCookie, jar.session_id), TRUE)

\* GET /api/history
GetHistoryBy(cookies, browser) ==
    LET user == get_current_user(cookies.session_token)
        set_session_id == session_middleware(cookies, uuids + 1)
    IN  /\ uuids + kept_uuids(browser, cookies) <= MaxUuids
        /\ web' = Answer("get_history", cookies, browser, user, 200, NoRow,
                         Ids(listed(user, cookies.session_id)))
        /\ uuids' = uuids + kept_uuids(browser, cookies)
        /\ jar' = jar_after(browser, set_session_id)
        /\ UNCHANGED << non_web, history, clock, sessions, created_sessions,
                        logged_out >>

GetHistory == \E cookies \in Requests : GetHistoryBy(cookies, FALSE)

BrowserGetHistory == GetHistoryBy(Cookies(NoCookie, jar.session_id), TRUE)

\* The status of get_history_item and delete_history_item.
item_status(user, session_id, row) ==
    IF row = NoRow THEN 404
    ELSE IF access_denied(user, session_id, row) THEN 403
    ELSE 200

\* The ids a requester asks for: those of the rows, and one no row has.
HistoryIds == { history[k].id : k \in 1..Len(history) } \cup {0}

\* GET /api/history/{history_id}
GetHistoryItem ==
    \E cookies \in Requests, history_id \in HistoryIds :
        LET user == get_current_user(cookies.session_token)
            row == find_row(history_id)
        IN  /\ web' = Answer("get_history_item", cookies, FALSE, user,
                             item_status(user, cookies.session_id, row), row,
                             << >>)
            /\ UNCHANGED << non_web, history, clock, sessions,
                            created_sessions, logged_out, uuids, jar >>

\* DELETE /api/history/{history_id}
DeleteHistoryItem ==
    \E cookies \in Requests, history_id \in HistoryIds :
        LET user == get_current_user(cookies.session_token)
            row == find_row(history_id)
            status == item_status(user, cookies.session_id, row)
        IN  /\ history' = IF status = 200 THEN Without(history, history_id)
                                          ELSE history
            /\ web' = Answer("delete_history_item", cookies, FALSE, user,
                             status, row, << >>)
            /\ UNCHANGED << non_web, clock, sessions, created_sessions,
                            logged_out, uuids, jar >>

NextHistory ==
    \/ Login
    \/ Research
    \/ BrowserResearch
    \/ GetHistory
    \/ BrowserGetHistory
    \/ GetHistoryItem
    \/ DeleteHistoryItem

SpecHistory == InitWeb /\ [][NextHistory]_vars

-----------------------------------------------------------------------------
(* ArxivService.search_papers called on its own *)

\* Feeds of recent well-formed entries in which up to two entries are of
\* another kind (at the cutoff, one tick older, undated, malformed).
ArxivFeeds(d) ==
    { [ i \in 1..n |->
          IF i = p1 THEN Entry(i, k1.published, k1.well_formed)
          ELSE IF i = p2 THEN Entry(i, k2.published, k2.well_formed)
          ELSE Recent(i) ] :
        n \in 0..MaxFeed, p1 \in 1..MaxFeed, p2 \in 1..MaxFeed,
        k1 \in EntryKinds(d), k2 \in EntryKinds(d) }

ArxivXmls(d) ==
    { [outcome |-> "ok", entries |-> f] : f \in ArxivFeeds(d) }
    \cup { [outcome |-> o, entries |-> << >>] : o \in HttpFailures }

InitArxiv ==
    /\ llm_ok = TRUE
    /\ tavily_client = TRUE
    /\ days \in 1..MaxDays
    /\ RunInit
    /\ utc_offset = 0
    /\ WebIdle
    /\ ApiIdle
    /\ feed \in ArxivXmls(days)
    /\ tv_response = [outcome |-> "ok", has_results |-> FALSE, results |-> << >>]
    /\ svc_pc = "call"
    /\ svc_result = [raised |-> FALSE, value |-> << >>]

SearchPapers ==
    /\ svc_pc = "call"
    /\ svc_result' = search_papers(feed, days)
    /\ svc_pc' = "returned"
    /\ UNCHANGED << utc_offset, web_vars,
                    llm_ok, tavily_client, days, run_vars, api_vars, feed,
                    tv_response >>

NextArxiv == SearchPapers

SpecArxiv == InitArxiv /\ [][NextArxiv]_vars

-----------------------------------------------------------------------------
(* ArxivService._parse_response called on the text of a feed *)

\* What reaches the parser: the text of a 2xx response, well-formed or not.
ParserXmls(d) == { xml \in ArxivXmls(d) : xml.outcome \in {"ok", "malformed_xml"} }

InitParser ==
    /\ llm_ok = TRUE
    /\ tavily_client = TRUE
    /\ days \in 1..MaxDays
    /\ RunInit
    /\ utc_offset = 0
    /\ WebIdle
    /\ ApiIdle
    /\ feed \in ParserXmls(days)
    /\ tv_response = [outcome |-> "ok", has_results |-> FALSE, results |-> << >>]
    /\ svc_pc = "call"
    /\ svc_result = [raised |-> FALSE, value |-> << >>]

ParseResponse ==
    /\ svc_pc = "call"
    /\ svc_result' = parse_response(feed, cutoff_of(datetime_now, days))
    /\ svc_pc' = "returned"
    /\ UNCHANGED << utc_offset, web_vars,
                    llm_ok, tavily_client, days, run_vars, api_vars, feed,
                    tv_response >>

NextParser == ParseResponse

SpecParser == InitParser /\ [][NextParser]_vars

-----------------------------------------------------------------------------
(* ArxivService.search_papers on hosts in different timezones *)

\* Offsets of the host clock from UTC, up to half a day either way.
UtcOffsets ==
    { o \in (0 - TicksPerDay)..TicksPerDay :
         2 * o <= TicksPerDay /\ 0 - 2 * o <= TicksPerDay }

InitTz ==
    /\ llm_ok = TRUE
    /\ tavily_client = TRUE
    /\ days \in 1..MaxDays
    /\ RunInit
    /\ utc_offset \in UtcOffsets
    /\ WebIdle
    /\ ApiIdle
    /\ feed \in ArxivXmls(days)
    /\ tv_response = [outcome |-> "ok", has_results |-> FALSE, results |-> << >>]
    /\ svc_pc = "call"
    /\ svc_result = [raised |-> FALSE, value |-> << >>]

SpecTz == InitTz /\ [][NextArxiv]_vars

-----------------------------------------------------------------------------
(* TavilyService.search_articles called on its own *)

TavilyResponses ==
    { [outcome |-> "raise", has_results |-> FALSE, results |-> << >>],
      [outcome |-> "ok", has_results |-> FALSE, results |-> << >>] }
    \cup { [outcome |-> "ok", has_results |-> TRUE,
            results |-> [ i \in 1..n |-> IF i = p THEN k ELSE ExampleUrl ]] :
             n \in 0..MaxResults, p \in 1..MaxResults, k \in UrlKinds }

InitTavily ==
    /\ llm_ok = TRUE
    /\ tavily_client \in BOOLEAN
    /\ days \in 1..MaxDays
    /\ RunInit
    /\ utc_offset = 0
    /\ WebIdle
    /\ ApiIdle
    /\ feed = [outcome |-> "ok", entries |-> << >>]
    /\ tv_response \in TavilyResponses
    /\ svc_pc = "call"
    /\ svc_result = [raised |-> FALSE, value |-> << >>]

SearchArticles ==
    /\ svc_pc = "call"
    /\ svc_result' = search_articles(tavily_client, tv_response)
    /\ svc_pc' = "returned"
    /\ UNCHANGED << utc_offset, web_vars,
                    llm_ok, tavily_client, days, run_vars, api_vars, feed,
                    tv_response >>

NextTavily == SearchArticles

SpecTavily == InitTavily /\ [][NextTavily]_vars

-----------------------------------------------------------------------------
(* Properties of run_research_agent (Spec) *)

Returned == phase = "returned"
NormalPath == Returned /\ graph_exc = None
CatchAllPath == Returned /\ graph_exc # None

Range(seq) == { seq[i] : i \in 1..Len(seq) }

\* C1: in every digest run_research_agent returns, on the normal path and on
\* the catch-all path, papers.count is the length of papers.items and
\* articles.count is the length of articles.items.
CountsMatchItems ==
    Returned =>
        /\ response.papers.count = Len(response.papers.items)
        /\ response.articles.count = Len(response.articles.items)

\* A digest of two papers, one of them with a fallback summary, and two articles.
CountsMatchItemsWitness ==
    /\ NormalPath
    /\ response.papers.count = 2
    /\ response.articles.count = 2
    /\ response.papers.items[1].summary.problemStatement = SUMMARY_UNAVAILABLE
    /\ response.papers.items[2].summary.problemStatement = MODEL_TEXT

\* C2: run_research_agent does not raise: an exception of the graph run is
\* handled by the except clause, and the digest it returns has the
\* placeholder "Research failed." as both executive summaries, count 0 and no
\* items on both sides, and the exception's message as the warning.
CatchAllDigest ==
    /\ phase = "raised" => ENABLED CatchAll
    /\ CatchAllPath =>
        /\ response.papers.executiveSummary = RESEARCH_FAILED
        /\ response.articles.executiveSummary = RESEARCH_FAILED
        /\ response.papers.count = 0 /\ response.papers.items = << >>
        /\ response.articles.count = 0 /\ response.articles.items = << >>
        /\ response.warning = graph_exc
        /\ response.warning # None

\* A run whose graph raised after both searches had found items.
CatchAllDigestWitness ==
    /\ CatchAllPath
    /\ raw_papers # << >>
    /\ raw_articles # << >>

\* The articles section the article branch produces from what the article
\* search returned and what the article executive-summary call did.
ArticlesSection ==
    [ executiveSummary |->
          IF raw_articles = << >> THEN NO_ARTICLES
          ELSE IF article_reply = "raise" THEN EXEC_FAILED
          ELSE ARTICLE_NARRATIVE,
      count |-> Len(raw_articles),
      items |-> article_items(raw_articles) ]

\* C3: when the model call of summarize_papers raised for some paper, the run
\* still returns on the normal path and its articles section (items, count,
\* executive summary) is the one the article branch produced, as in a run
\* where that call succeeded.
PaperCallFailureKeepsArticles ==
    (Returned /\ "raise" \in Range(sp_replies)) =>
        /\ graph_exc = None
        /\ response.articles = ArticlesSection

PaperCallFailureKeepsArticlesWitness ==
    /\ Returned
    /\ "raise" \in Range(sp_replies)
    /\ response.articles.count = 2
    /\ response.articles.executiveSummary = ARTICLE_NARRATIVE

PaperBranch == {"fetch_papers", "summarize_papers", "generate_paper_summary"}
ArticleBranch == {"fetch_articles", "generate_article_summary"}

\* C4: a failure raised inside a node of one branch does not fail the run and
\* does not discard what the other branch obtained: after a raise in the
\* paper branch the digest still has the articles found, after a raise in
\* the article branch it still has the papers found.
BranchFailureIsolated ==
    Returned =>
        /\ (\E n \in PaperBranch : task[n] = "raised") =>
               response.articles.items = article_items(raw_articles)
        /\ (\E n \in ArticleBranch : task[n] = "raised") =>
               Len(response.papers.items) = Len(raw_papers)

\* C5: whenever an except clause of a node turned a failure into an empty or
\* placeholder result, the returned digest's warning is not null.
CaughtFailureHasWarning ==
    (NormalPath /\ caught # {}) => response.warning # None

\* C6: when the paper search returned no paper, summarize_papers and the paper
\* executive-summary node make no model call and the returned
\* papers.executiveSummary is "No papers found for this topic and timeframe.".
NoPapersPlaceholder ==
    (Returned /\ raw_papers = << >>) =>
        /\ llm_calls.summarize_papers = 0
        /\ llm_calls.generate_paper_summary = 0
        /\ response.papers.executiveSummary = NO_PAPERS

\* The part of C6 about model calls alone.
NoPapersNoModelCall ==
    raw_papers = << >> =>
        /\ llm_calls.summarize_papers = 0
        /\ llm_calls.generate_paper_summary = 0

NonEmptyString(v) == v # "" /\ v # None

\* C7: every paper of a returned digest has non-empty strings as
\* summary.problemStatement, summary.proposedSolution and summary.challenges.
SummariesNonEmpty ==
    Returned =>
        \A i \in 1..Len(response.papers.items) :
            LET sm == response.papers.items[i].summary
            IN  /\ NonEmptyString(sm.problemStatement)
                /\ NonEmptyString(sm.proposedSolution)
                /\ NonEmptyString(sm.challenges)

\* Two paper lists agree in length and, position by position, in every field
\* but the summary.
SamePapers(out, inp) ==
    /\ Len(out) = Len(inp)
    /\ \A i \in 1..Len(inp) :
          /\ out[i].id = inp[i].id
          /\ out[i].arxiv_url = inp[i].arxiv_url
          /\ out[i].published_date = inp[i].published_date

\* C8: summarize_papers returns the papers it was given, in the same order,
\* each once and with its other fields unchanged, whatever the model calls did.
SummarizeKeepsPapers ==
    /\ task.summarize_papers = "done" =>
          /\ Len(writes.papers) = 1
          /\ SamePapers(writes.papers[1], raw_papers)
    /\ (task.summarize_papers = "finished" /\ phase = "graph") =>
          SamePapers(state.papers, raw_papers)

\* Two papers: the call for the first raised, the reply for the second
\* could not be parsed.
SummarizeKeepsPapersWitness ==
    /\ task.summarize_papers = "done"
    /\ sp_replies = << "raise", "bad_json" >>
    /\ Len(writes.papers[1]) = 2

-----------------------------------------------------------------------------
(* Properties of the search clients (SpecArxiv, SpecTavily) *)

\* An entry the date filter keeps and whose fields parse.
Qualifies(e) ==
    /\ e.published # NoDate
    /\ e.published >= Now - days * TicksPerDay
    /\ e.well_formed

QualifyingBefore(i) == { k \in 1..(i - 1) : Qualifies(feed.entries[k]) }

\* C9: whatever the provider call does, search_papers returns without
\* raising; it returns at most 10 papers, which are the first 10 entries of
\* the feed that pass the date filter (and parse), in feed order; and it
\* returns the empty list when the call or the parse of the feed failed.
SearchPapersContract ==
    svc_pc = "returned" =>
        LET papers == svc_result.value
        IN  /\ ~svc_result.raised
            /\ Len(papers) <= MAX_PAPERS
            /\ feed.outcome # "ok" => papers = << >>
            /\ \A j \in 1..Len(papers) : \A k \in 1..Len(papers) :
                   j < k => papers[j].id < papers[k].id
            /\ \A i \in 1..Len(feed.entries) :
                   (\E j \in 1..Len(papers) : papers[j].id = i)
                     <=> /\ Qualifies(feed.entries[i])
                         /\ Cardinality(QualifyingBefore(i)) < MAX_PAPERS
            /\ \A j \in 1..Len(papers) : papers[j].id \in 1..Len(feed.entries)

\* A feed with more than 10 entries inside the window, cut to 10.
SearchPapersContractWitness ==
    /\ svc_pc = "returned"
    /\ feed.outcome = "ok"
    /\ Cardinality(QualifyingBefore(Len(feed.entries) + 1)) > MAX_PAPERS
    /\ Len(svc_result.value) = MAX_PAPERS

\* C10: search_articles does not raise and returns at most 15 articles,
\* whatever the provider returns; it returns the empty list when no API key
\* is configured or the provider call fails.
SearchArticlesContract ==
    svc_pc = "returned" =>
        /\ ~svc_result.raised
        /\ Len(svc_result.value) <= MAX_ARTICLES
        /\ (~tavily_client \/ tv_response.outcome = "raise") =>
               svc_result.value = << >>

\* The part of C10 the code keeps: no raise, and empty without a key or
\* after a failed call.
SearchArticlesNeverRaises ==
    svc_pc = "returned" =>
        /\ ~svc_result.raised
        /\ (~tavily_client \/ tv_response.outcome = "raise") =>
               svc_result.value = << >>

Returned_ids == { svc_result.value[j].id : j \in 1..Len(svc_result.value) }

\* C11: the date filter is inclusive at the cutoff.  With now the reading of
\* datetime.now() and the entry's timestamp taken as the code compares it
\* (its offset dropped), an entry published at now minus timeframe_days is
\* kept and an entry one tick of the clock older is discarded.
CutoffInclusive ==
    (svc_pc = "returned" /\ feed.outcome = "ok") =>
        \A i \in 1..Len(feed.entries) :
            LET e == feed.entries[i]
            IN  /\ ( /\ e.published = Now - days * TicksPerDay
                     /\ e.well_formed
                     /\ Cardinality(QualifyingBefore(i)) < MAX_PAPERS )
                       => i \in Returned_ids
                /\ e.published = Now - days * TicksPerDay - 1
                       => i \notin Returned_ids

\* A feed with an entry at the cutoff, returned, followed by an entry one
\* tick older, dropped.
CutoffInclusiveWitness ==
    /\ svc_pc = "returned"
    /\ feed.outcome = "ok"
    /\ Len(feed.entries) = 2
    /\ feed.entries[1].published = Now - days * TicksPerDay
    /\ feed.entries[1].well_formed
    /\ feed.entries[2].published = Now - days * TicksPerDay - 1
    /\ feed.entries[2].well_formed
    /\ Returned_ids = {1}

\* The source label the provider result at position i should get: the host
\* without a leading "www.", "Unknown" without a host.
LeadingWwwStripped(netloc) ==
    IF Len(netloc) >= 2 /\ netloc[1] = "www" /\ netloc[2] = "."
    THEN SubSeq(netloc, 3, Len(netloc))
    ELSE netloc

SourceLabel(result) ==
    IF result.malformed \/ ~result.has_url \/ result.url = << >> THEN UNKNOWN
    ELSE LeadingWwwStripped(result.url)

\* C12: the source of an article is the host of its URL with only a leading
\* "www." removed, and "Unknown" when the URL is missing or has no scheme or
\* host.
SourceIsHostWithoutLeadingWww ==
    (svc_pc = "returned" /\ tavily_client /\ tv_response.outcome = "ok"
        /\ tv_response.has_results) =>
        \A i \in 1..Len(svc_result.value) :
            i <= Len(tv_response.results) =>
                svc_result.value[i].source = SourceLabel(tv_response.results[i])

\* The part of C12 the code keeps: a host that holds "www." only at its
\* start, or not at all, gets the host without that prefix.
SourceOfPlainHost ==
    (svc_pc = "returned" /\ tavily_client /\ tv_response.outcome = "ok"
        /\ tv_response.has_results) =>
        \A i \in 1..Len(svc_result.value) :
            tv_response.results[i] = ExampleUrl =>
                svc_result.value[i].source = << "example", ".", "com" >>

-----------------------------------------------------------------------------
(* Properties of the nodes and of the graph (Spec) *)

\* The node has run to its end: it returned or it raised.
Ran(n) == task[n] \in {"done", "finished", "raised"}

\* What the node wrote to the key: in the superstep's writes until they are
\* applied, in the state afterwards; nothing when it raised.
Written(n, key) ==
    IF task[n] = "done" THEN writes[key]
    ELSE IF task[n] = "finished" THEN << state[key] >>
    ELSE << >>

\* The contract of an executive-summary node over the list `items`.
ExecutiveSummaryContract(n, key, items, placeholder, narrative) ==
    IF items = << >>
    THEN /\ llm_calls[n] = 0
         /\ Written(n, key) = << placeholder >>
    ELSE /\ llm_calls[n] = 1
         /\ Written(n, key) = << IF n \in caught THEN EXEC_FAILED ELSE narrative >>

\* C13: each executive-summary node makes one model call when its list is
\* not empty and returns the call's text, or "Executive summary generation
\* failed." when the call failed; with an empty list it makes no call and
\* returns the "No ... found for this topic and timeframe." placeholder.
ExecutiveSummaryNodes ==
    /\ Ran("generate_paper_summary") =>
          ExecutiveSummaryContract("generate_paper_summary",
              "paper_executive_summary", state.papers, NO_PAPERS, PAPER_NARRATIVE)
    /\ Ran("generate_article_summary") =>
          ExecutiveSummaryContract("generate_article_summary",
              "article_executive_summary", state.articles, NO_ARTICLES,
              ARTICLE_NARRATIVE)

\* The part of C13 the code keeps: the contract of a node that returned.
ExecutiveSummaryNodesReturned ==
    /\ task.generate_paper_summary \in {"done", "finished"} =>
          ExecutiveSummaryContract("generate_paper_summary",
              "paper_executive_summary", state.papers, NO_PAPERS, PAPER_NARRATIVE)
    /\ task.generate_article_summary \in {"done", "finished"} =>
          ExecutiveSummaryContract("generate_article_summary",
              "article_executive_summary", state.articles, NO_ARTICLES,
              ARTICLE_NARRATIVE)

Started(n) == task[n] # "idle"

FetchedPapers == [ i \in 1..Len(raw_papers) |-> paper_dict(raw_papers[i]) ]

\* C14: the nodes run in graph order.  summarize_papers starts after
\* fetch_papers has finished and reads the papers it wrote;
\* generate_paper_summary starts after summarize_papers has finished and reads
\* the papers it returned; generate_article_summary starts after
\* fetch_articles has finished and reads the articles it wrote.
GraphOrder ==
    /\ Started("summarize_papers") =>
          /\ task.fetch_papers = "finished"
          /\ SamePapers(state.papers, raw_papers)
          /\ sp_i = 0 => state.papers = FetchedPapers
    /\ Started("generate_paper_summary") =>
          /\ task.summarize_papers = "finished"
          /\ state.papers = summarized_papers
    /\ Started("generate_article_summary") =>
          /\ task.fetch_articles = "finished"
          /\ state.articles = raw_articles

\* The last node is running over two summarized papers.
GraphOrderWitness ==
    /\ task.generate_paper_summary = "running"
    /\ Len(state.papers) = 2
    /\ state.papers[1].summary = UnavailableSummary
    /\ state.papers[2].summary.challenges = MODEL_TEXT
    /\ task.generate_article_summary = "finished"

\* The step that starts generate_article_summary / summarize_papers.
StartArticleSummary ==
    EndSuperstep /\ task'.generate_article_summary = "running"

StartSummarizePapers ==
    EndSuperstep /\ task'.summarize_papers = "running"

\* C15 as stated: a call that hangs in one branch does not hold up the other
\* branch.  While the paper fetch has not returned, generate_article_summary
\* can start as soon as fetch_articles has finished, and summarize_papers can
\* start while the article fetch has not returned.
HungFetchDoesNotBlock ==
    /\ (phase = "graph" /\ task.fetch_articles = "done"
           /\ task.fetch_papers = "running") => ENABLED StartArticleSummary
    /\ (phase = "graph" /\ task.fetch_papers = "done"
           /\ task.fetch_articles = "running") => ENABLED StartSummarizePapers

\* C15 amended: the two fetch calls are out at the same time and neither
\* waits for the other's return, but the second node of a branch starts only
\* when both fetch nodes have finished: a fetch call that does not return
\* holds up the other branch too.
FetchesConcurrentThenBarrier ==
    /\ (phase = "graph" /\ task.fetch_papers = "running") => ENABLED FetchPapers
    /\ (phase = "graph" /\ task.fetch_articles = "running") => ENABLED FetchArticles
    /\ Started("generate_article_summary") =>
          task.fetch_papers = "finished" /\ task.fetch_articles = "finished"
    /\ Started("summarize_papers") =>
          task.fetch_papers = "finished" /\ task.fetch_articles = "finished"
    /\ (phase = "graph" /\ task.fetch_papers = "running") =>
          ~ENABLED StartArticleSummary
    /\ (phase = "graph" /\ task.fetch_articles = "running") =>
          ~ENABLED StartSummarizePapers

\* The article fetch has returned two articles and the paper fetch is still out.
FetchesConcurrentThenBarrierWitness ==
    /\ phase = "graph"
    /\ task.fetch_articles = "done"
    /\ Len(raw_articles) = 2
    /\ task.fetch_papers = "running"
    /\ task.generate_article_summary = "idle"

\* C16: when fetch nodes recorded errors, the run completes normally and the
\* returned warning is the message of the first error recorded, also when
\* both fetch_papers and fetch_articles recorded one.
WarningIsFirstError ==
    (Returned /\ errors # << >>) =>
        /\ graph_exc = None
        /\ response.warning = errors[1]

\* The part of C16 about a single recorded error: it is the warning of a run
\* that completed normally.
SingleErrorIsWarning ==
    (NormalPath /\ Len(errors) = 1) => response.warning = errors[1]

\* Both fetch nodes wrote "error" in the first superstep and the run is over.
BothFetchErrorsRecorded == Returned /\ Len(errors) = 2

\* The provider call of a branch did not give results: no API key, or the
\* call failed.
PaperProviderFailed == paper_outcome \in HttpFailures
ArticleProviderFailed == article_outcome \in {"no_key", "raise"}

EmptySection(section, placeholder) ==
    /\ section.items = << >>
    /\ section.count = 0
    /\ section.executiveSummary = placeholder

\* C17: when a search provider is unconfigured or its call fails, the digest
\* returned has that branch with no item, count 0 and the "No ... found for
\* this topic and timeframe." placeholder, and its warning is null, the same
\* for a missing key and for a failed call.
FailedProviderIsEmptyResult ==
    Returned =>
        /\ PaperProviderFailed =>
               /\ EmptySection(response.papers, NO_PAPERS)
               /\ response.warning = None
        /\ ArticleProviderFailed =>
               /\ EmptySection(response.articles, NO_ARTICLES)
               /\ response.warning = None

\* The part of C17 that holds: the same, for the runs in which graph.ainvoke
\* returned.
FailedProviderIsEmptyResultNormalPath ==
    NormalPath =>
        /\ PaperProviderFailed =>
               /\ EmptySection(response.papers, NO_PAPERS)
               /\ response.warning = None
        /\ ArticleProviderFailed =>
               /\ EmptySection(response.articles, NO_ARTICLES)
               /\ response.warning = None

Workflow_not_started ==
    /\ \A n \in Nodes : task[n] \in {"idle", "running"}
    /\ paper_outcome = "none"
    /\ article_outcome = "none"
    /\ llm_calls = NoCalls
    /\ history = << >>

\* C18: a research request whose timeframe is outside 1..30 or whose topic is
\* empty is rejected before the workflow starts, with no provider call, no
\* model call and no history row; and a request that passed validation is
\* never answered with an error caused by a provider, a record, a model call
\* or the workflow (an error answer to it comes from the database only).
OnlyValidationFailuresReachCaller ==
    /\ ~valid_request(topic_len, days) =>
           /\ Workflow_not_started
           /\ http_status \in {"pending", "422"}
    /\ (valid_request(topic_len, days) /\ db_ok) =>
           http_status \in {"pending", "200"}

\* The part of C18 about rejection: an invalid request is answered 422 and
\* nothing of the workflow happens for it.
InvalidRequestRejected ==
    ~valid_request(topic_len, days) =>
        /\ Workflow_not_started
        /\ http_status \in {"pending", "422"}

\* A request with timeframe 31 has been rejected.
InvalidRequestRejectedWitness ==
    /\ http_status = "422"
    /\ days = MAX_TIMEFRAME + 1
    /\ topic_len >= MIN_TOPIC_LENGTH

\* Model calls summarize_papers issued, and those that returned or failed.
Issued == llm_calls.summarize_papers
Replied == Len(sp_replies)

\* C19: within summarize_papers at most one model call is in flight, the call
\* for paper k+1 is issued only after the call for paper k returned or
\* failed, and when the node returns the model has been called exactly once
\* per paper, failed calls included (no retry).
CallsSequentialOncePerPaper ==
    /\ Issued - Replied \in {0, 1}
    /\ Replied = Len(summarized_papers)
    /\ sp_i >= 1 => Issued \in {sp_i - 1, sp_i} /\ Replied = sp_i - 1
    /\ task["summarize_papers"] \in {"done", "finished"} =>
           /\ Issued = Len(raw_papers)
           /\ Replied = Len(raw_papers)

\* The call for the second paper is in flight after the first call failed.
CallsSequentialOncePerPaperWitness ==
    /\ Issued = 2
    /\ Replied = 1
    /\ sp_replies[1] = "raise"

\* C20: between any two successive model calls of summarize_papers a pacing
\* delay elapses, whether the earlier call succeeded, gave an unparseable
\* reply or failed: no call follows a call without a sleep in between.
DelayBetweenCalls ==
    \A k \in 1..(Len(sp_trace) - 1) :
        sp_trace[k] = "call" => sp_trace[k + 1] = "sleep"

Positions(seq, v) == { k \in 1..Len(seq) : seq[k] = v }

\* The part of C20 that holds: the delay follows every call whose iteration
\* stayed in the try block, and no other.
DelayAfterTryPath ==
    Cardinality(Positions(sp_trace, "sleep")) =
        Cardinality({ k \in 1..Len(sp_replies) :
                        sp_replies[k] \notin {"raise", "bad_json"} })

\* An entry the for loop's except clause handles: no or malformed published
\* date, or a missing id, title, author name or summary.
FailsToParse(e) == e.published = NoDate \/ ~e.well_formed

\* C21: an entry of the feed that fails to parse is skipped on its own: the
\* parser returns every entry that is inside the window and parses, in feed
\* order, whatever the other entries of the feed are.
BadEntrySkippedAlone ==
    (svc_pc = "returned" /\ feed.outcome = "ok") =>
        LET papers == svc_result.value
        IN  /\ ~svc_result.raised
            /\ \A i \in 1..Len(feed.entries) :
                   Qualifies(feed.entries[i]) <=>
                       \E j \in 1..Len(papers) : papers[j].id = i
            /\ \A j \in 1..Len(papers) : papers[j].id \in 1..Len(feed.entries)
            /\ \A j \in 1..Len(papers) : \A k \in 1..Len(papers) :
                   j < k => papers[j].id < papers[k].id

\* A feed whose second entry fails to parse, between entries that are
\* returned.
BadEntrySkippedAloneWitness ==
    /\ svc_pc = "returned"
    /\ feed.outcome = "ok"
    /\ Len(feed.entries) >= 3
    /\ FailsToParse(feed.entries[2])
    /\ {1, 3} \subseteq Returned_ids
    /\ 2 \notin Returned_ids

EachNodeOnce ==
    \A n \in Nodes : node_runs[n] = 1 /\ task[n] = "finished"

\* C22: if every provider call and every model call eventually returns or
\* fails, every run of run_research_agent eventually returns a digest; and
\* in a run that did not take the catch-all path each of the five nodes was
\* executed exactly once, none skipped, repeated or retried.
RunReturnsEachNodeOnce ==
    /\ <>Returned
    /\ [](NormalPath => EachNodeOnce)
    /\ [](\A n \in Nodes : node_runs[n] <= 1)

\* A run that returned on the normal path after model calls in three nodes.
RunReturnsEachNodeOnceWitness ==
    /\ NormalPath
    /\ EachNodeOnce
    /\ llm_calls.summarize_papers = 2
    /\ llm_calls.generate_paper_summary = 1
    /\ llm_calls.generate_article_summary = 1

\* The entries search_papers has to return: those whose UTC publication
\* instant is not earlier than the current instant minus the window, the
\* first 10 of them.
Expected_ids ==
    { i \in 1..Len(feed.entries) :
        /\ Qualifies(feed.entries[i])
        /\ Cardinality(QualifyingBefore(i)) < MAX_PAPERS }

\* C26: the paper date filter does not depend on the host's timezone: for
\* every UTC offset of the host clock an entry is kept exactly when its UTC
\* publication instant is not earlier than now minus the requested days.
FilterIgnoresHostTimezone ==
    (svc_pc = "returned" /\ feed.outcome = "ok") => Returned_ids = Expected_ids

\* The part of C26 that holds: on a host whose clock is on UTC.
FilterRightOnUtcHost ==
    (svc_pc = "returned" /\ feed.outcome = "ok" /\ utc_offset = 0) =>
        Returned_ids = Expected_ids

\* The last request read or deleted a row.
ItemAccessed ==
    /\ web.op \in {"get_history_item", "delete_history_item"}
    /\ web.status = 200

\* The requester of the last request owns the row it asked for.
IsOwner ==
    IF web.user # None THEN web.row.user_id = web.user
    ELSE /\ web.row.session_id # NoCookie
         /\ web.row.session_id = web.session_id

\* C23: GET and DELETE /api/history/{id} return or remove a stored entry
\* only for its owner, the logged-in user whose id is the entry's user_id or
\* the anonymous requester whose session_id cookie is the entry's non-null
\* session_id; a requester with no login and no session_id cookie never
\* reads or deletes an entry of a registered user.
OnlyOwnerAccessesItem == ItemAccessed => IsOwner

\* The part of C23 that holds: for requesters that are logged in or send a
\* session_id cookie.
OnlyOwnerAccessesItemIdentified ==
    (ItemAccessed /\ (web.user # None \/ web.session_id # NoCookie)) => IsOwner

\* A requester with no login and no cookie deleted the entry of a user.
StrangerDeletedUserItem ==
    /\ web.op = "delete_history_item"
    /\ web.status = 200
    /\ web.user = None
    /\ web.session_id = NoCookie
    /\ web.row.user_id \in Users

\* The browser asked for its history, and the row of its last search is
\* still stored.
BrowserListedHistory ==
    /\ web.op = "get_history"
    /\ web.browser
    /\ jar.row # 0
    /\ find_row(jar.row) # NoRow

\* C24: after an anonymous client that sent no cookie made a successful POST
\* /api/research, its next GET /api/history, sent with the session_id cookie
\* that response set, lists the search just made.
AnonymousSearchListed ==
    (BrowserListedHistory /\ jar.row_cookie = NoCookie) =>
        jar.row \in Range(web.items)

\* The part of C24 that holds: a search the browser made with a session_id
\* cookie it already had is listed.
SearchWithCookieListed ==
    (BrowserListedHistory /\ jar.row_cookie # NoCookie) =>
        jar.row \in Range(web.items)

\* The stored sessions that had the token of the last request and had not
\* expired when it was made.
LiveSessions ==
    { x \in sessions : x.token = web.session_token /\ x.expires_at > web.at }

\* C25: a session token authenticates a request only while a stored session
\* with that token exists and its expiry is in the future; after a logout
\* sent with the token it authenticates no later request; and the other
\* sessions, of the same user too, stay stored.
TokenValidWhileSessionLives ==
    /\ web.op = "get_me" =>
           /\ web.user # None <=> LiveSessions # {}
           /\ \A x \in LiveSessions : x.user_id = web.user
           /\ web.session_token \in logged_out => web.user = None
    /\ sessions = { x \in created_sessions : x.token \notin logged_out }

\* A user logged in twice and logged out of the first session: the second
\* token still authenticates.
TokenValidWhileSessionLivesWitness ==
    /\ web.op = "get_me"
    /\ web.user = "u1"
    /\ web.session_token = 2
    /\ logged_out = {1}
    /\ \E x \in created_sessions : x.token = 1 /\ x.user_id = "u1"

====
